---- MODULE Spec2Model ----
(***************************************************************************)
(* Model of tools/generate_othello_games.py: the OthelloBoard class (rules *)
(* engine and notation codec) and the generate_game driver.                *)
(*                                                                         *)
(* Python values are modelled as follows.  A str is the sequence of its    *)
(* code points ("d3" is <<100, 51>>).  The board is a function from row    *)
(* index to a function from column index to a cell.  The result of a call  *)
(* is a record [exc, val]: exc = "" and val the 1-tuple of the returned     *)
(* value (the empty tuple for None), or exc the name of the exception that *)
(* ended the call.                                                         *)
(***************************************************************************)
EXTENDS Integers, Sequences, FiniteSets, TLC

\* ---------------------------------------------------------------- bounds
\* number of leading placements of a game whose random.choice is explored in
\* full; later choices are explored for the first list element only
MaxFreePlies == 2
\* a client of the board issues its call under test after at most this many
\* placements
MaxSetupPlies == 7
\* how far outside [0, SIZE) the coordinates handed to the board may lie
MaxOut == 1
\* longest string handed to notation_to_coords
MaxStrLen == 3

\* ------------------------------------------------------ class constants
SIZE == 8
EMPTY == 0
BLACK == 1
WHITE == 2

DIRECTIONS ==
    << <<-1, -1>>, <<-1, 0>>, <<-1, 1>>,
       <<0, -1>>,             <<0, 1>>,
       <<1, -1>>,  <<1, 0>>,  <<1, 1>> >>

Rows == 0..(SIZE - 1)

\* ------------------------------------------------------ Python built-ins
Ret(v) == [exc |-> "", val |-> <<v>>]
RetNone == [exc |-> "", val |-> <<>>]
Raise(e) == [exc |-> e, val |-> <<>>]
Val(ret) == ret.val[1]

\* F applied to the value of v; v is evaluated once, before F uses it (the
\* way a Python assignment evaluates its right-hand side)
Bind(v, F(_)) == CHOOSE y \in {F(x) : x \in {v}} : TRUE

\* list[i]: indices -len..-1 count from the end, anything else outside
\* 0..len-1 raises IndexError
InIndex(i, len) == (0 - len) <= i /\ i < len
PyIdx(i, len) == IF i < 0 THEN i + len ELSE i

\* chr(n) for a valid code point: the one-character string
Chr(n) == <<n>>
\* ord(ch) of a one-character string
Ord(ch) == ch[1]

RECURSIVE StrNat(_)
StrNat(n) == IF n < 10 THEN <<48 + n>> ELSE StrNat(n \div 10) \o <<48 + (n % 10)>>
\* str(n) of an int: decimal digits, "-" in front of a negative
Str(n) == IF n < 0 THEN <<45>> \o StrNat(0 - n) ELSE StrNat(n)

\* int(ch) of a one-character ASCII string: an ASCII digit, else ValueError
IntOfChar(ch) ==
    IF 48 <= Ord(ch) /\ Ord(ch) <= 57 THEN Ret(Ord(ch) - 48) ELSE Raise("ValueError")

\* ------------------------------------------------------------ the object
\* self = [board, current_player, moves]
NewBoard ==
    [board |-> [r \in Rows |-> [c \in Rows |->
                  IF <<r, c>> \in {<<3, 3>>, <<4, 4>>} THEN WHITE
                  ELSE IF <<r, c>> \in {<<3, 4>>, <<4, 3>>} THEN BLACK
                  ELSE EMPTY]],
     current_player |-> BLACK,
     moves |-> <<>>]

\* the expression  WHITE if p == BLACK else BLACK
Other(p) == IF p = BLACK THEN WHITE ELSE BLACK

\* the test  0 <= r < SIZE and 0 <= c < SIZE
OnBoard(r, c) == 0 <= r /\ r < SIZE /\ 0 <= c /\ c < SIZE

\* ScanOwn without the break at an empty cell
RECURSIVE ScanOwnSkipEmpty(_, _, _, _, _)
ScanOwnSkipEmpty(self, r, c, dr, dc) ==
    IF ~OnBoard(r, c) THEN FALSE
    ELSE IF self.board[r][c] = self.current_player THEN TRUE
    ELSE ScanOwnSkipEmpty(self, r + dr, c + dc, dr, dc)

\* the while loop of is_valid_move (lines 78-87), entered at (r, c):
\* TRUE iff it returns True, FALSE iff it leaves the loop
RECURSIVE ScanOwn(_, _, _, _, _)
ScanOwn(self, r, c, dr, dc) ==
    IF ~OnBoard(r, c) THEN FALSE
    ELSE IF self.board[r][c] = EMPTY THEN FALSE
    ELSE IF self.board[r][c] = self.current_player THEN TRUE
    ELSE ScanOwn(self, r + dr, c + dc, dr, dc)

\* one iteration of the for loop of is_valid_move (lines 71-87), for
\* direction i: TRUE iff that iteration returns True
ValidIn(self, row, col, i) ==
    LET dr == DIRECTIONS[i][1]
        dc == DIRECTIONS[i][2]
        r == row + dr
        c == col + dc
        opponent == Other(self.current_player)
    IN /\ OnBoard(r, c)
       /\ self.board[r][c] = opponent
       /\ ScanOwn(self, r + dr, c + dc, dr, dc)

\* the for loop returns True at the first direction whose iteration does,
\* and the function returns False when none does
is_valid_move(self, row, col) ==
    IF ~(InIndex(row, SIZE) /\ InIndex(col, SIZE)) THEN Raise("IndexError")
    ELSE IF self.board[PyIdx(row, SIZE)][PyIdx(col, SIZE)] # EMPTY THEN Ret(FALSE)
    ELSE Ret(\E i \in 1..Len(DIRECTIONS) : ValidIn(self, row, col, i))

\* the cells in the order the loops would give with col as the outer loop
RowMajorColumnFirst ==
    [k \in 1..(SIZE * SIZE) |-> <<(k - 1) % SIZE, (k - 1) \div SIZE>>]

\* the cells in the order of the nested loops  for row ...: for col ...
RowMajor == [k \in 1..(SIZE * SIZE) |-> <<(k - 1) \div SIZE, (k - 1) % SIZE>>]

IsValidCell(self, rc) == is_valid_move(self, rc[1], rc[2]) = Ret(TRUE)

\* get_valid_moves: the cells that pass is_valid_move, in scan order
get_valid_moves(self) == SelectSeq(RowMajor, LAMBDA rc : IsValidCell(self, rc))

has_valid_moves(self) == Len(get_valid_moves(self)) > 0

\* switch_player that assigns the player it already has
SwitchPlayerKeep(self) == [self EXCEPT !.current_player = Other(Other(self.current_player))]

switch_player(self) == [self EXCEPT !.current_player = Other(self.current_player)]

\* coords_to_notation with row and col exchanged
CoordsToNotationSwapped(row, col) == Chr(97 + row) \o Str(col + 1)

\* coords_to_notation without the "+ 1" of the row
CoordsToNotationZeroBased(row, col) == Chr(97 + col) \o Str(row)

coords_to_notation(row, col) == Chr(97 + col) \o Str(row + 1)

\* notation_to_coords without the "- 1" of the row
NotationToCoordsOneBased(notation) ==
    IF Len(notation) < 1 THEN Raise("IndexError")
    ELSE LET col == Ord(<<notation[1]>>) - 97
         IN IF Len(notation) < 2 THEN Raise("IndexError")
            ELSE LET d == IntOfChar(<<notation[2]>>)
                 IN IF d.exc # "" THEN d ELSE Ret(<<Val(d), col>>)

notation_to_coords(notation) ==
    IF Len(notation) < 1 THEN Raise("IndexError")
    ELSE LET col == Ord(<<notation[1]>>) - 97
         IN IF Len(notation) < 2 THEN Raise("IndexError")
            ELSE LET d == IntOfChar(<<notation[2]>>)
                 IN IF d.exc # "" THEN d ELSE Ret(<<Val(d) - 1, col>>)

\* CollectFlips that keeps to_flip when the run ends at the edge or at an
\* empty cell
RECURSIVE CollectFlipsNoReset(_, _, _, _, _, _)
CollectFlipsNoReset(self, r, c, dr, dc, to_flip) ==
    LET opponent == Other(self.current_player)
    IN IF ~(OnBoard(r, c) /\ self.board[r][c] = opponent) THEN to_flip
       ELSE LET flips == Append(to_flip, <<r, c>>)
                r2 == r + dr
                c2 == c + dc
            IN IF ~OnBoard(r2, c2) \/ self.board[r2][c2] = EMPTY THEN flips
               ELSE IF self.board[r2][c2] = self.current_player THEN flips
               ELSE CollectFlipsNoReset(self, r2, c2, dr, dc, flips)

\* the while loop of make_move (lines 108-121) entered at (r, c) with the
\* list to_flip collected so far; the value is to_flip when the loop is left
RECURSIVE CollectFlips(_, _, _, _, _, _)
CollectFlips(self, r, c, dr, dc, to_flip) ==
    LET opponent == Other(self.current_player)
    IN IF ~(OnBoard(r, c) /\ self.board[r][c] = opponent) THEN to_flip
       ELSE LET flips == Append(to_flip, <<r, c>>)
                r2 == r + dr
                c2 == c + dc
            IN IF ~OnBoard(r2, c2) \/ self.board[r2][c2] = EMPTY THEN <<>>
               ELSE IF self.board[r2][c2] = self.current_player THEN flips
               ELSE CollectFlips(self, r2, c2, dr, dc, flips)

\* the loop  for flip_r, flip_c in to_flip: board[flip_r][flip_c] = current_player
RECURSIVE FlipAll(_, _, _)
FlipAll(self, to_flip, k) ==
    IF k > Len(to_flip) THEN self
    ELSE Bind([self EXCEPT !.board[to_flip[k][1]][to_flip[k][2]] = self.current_player],
              LAMBDA flipped : FlipAll(flipped, to_flip, k + 1))

\* the for loop of make_move over DIRECTIONS from direction i on; each
\* direction scans the board as the earlier directions left it
RECURSIVE FlipFrom(_, _, _, _)
FlipFrom(self, row, col, i) ==
    IF i > Len(DIRECTIONS) THEN self
    ELSE LET dr == DIRECTIONS[i][1]
             dc == DIRECTIONS[i][2]
         IN Bind(CollectFlips(self, row + dr, col + dc, dr, dc, <<>>), LAMBDA to_flip :
              Bind(FlipAll(self, to_flip, 1), LAMBDA flipped :
                FlipFrom(flipped, row, col, i + 1)))

\* make_move that does not place the piece
MakeMoveNoPlace(self, row, col) ==
    LET valid == is_valid_move(self, row, col)
    IN IF valid.exc # "" THEN [self |-> self, ret |-> valid]
       ELSE IF valid = Ret(FALSE) THEN [self |-> self, ret |-> Ret(FALSE)]
       ELSE LET flipped == FlipFrom(self, row, col, 1)
                recorded == [flipped EXCEPT !.moves =
                                 Append(flipped.moves, coords_to_notation(row, col))]
            IN [self |-> [recorded EXCEPT !.current_player = Other(recorded.current_player)],
                ret |-> Ret(TRUE)]

\* make_move that only refuses an occupied cell
MakeMoveNoCheck(self, row, col) ==
    IF ~(InIndex(row, SIZE) /\ InIndex(col, SIZE)) THEN [self |-> self, ret |-> Raise("IndexError")]
    ELSE IF self.board[PyIdx(row, SIZE)][PyIdx(col, SIZE)] # EMPTY
         THEN [self |-> self, ret |-> Ret(FALSE)]
    ELSE LET placed == [self EXCEPT !.board[PyIdx(row, SIZE)][PyIdx(col, SIZE)] =
                                        self.current_player]
             flipped == FlipFrom(placed, row, col, 1)
             recorded == [flipped EXCEPT !.moves =
                              Append(flipped.moves, coords_to_notation(row, col))]
         IN [self |-> [recorded EXCEPT !.current_player = Other(recorded.current_player)],
                ret |-> Ret(TRUE)]

\* make_move: the value is [self, ret], the object after the call and the result
make_move(self, row, col) ==
    LET valid == is_valid_move(self, row, col)
    IN IF valid.exc # "" THEN [self |-> self, ret |-> valid]
       ELSE IF valid = Ret(FALSE) THEN [self |-> self, ret |-> Ret(FALSE)]
       ELSE LET placed == [self EXCEPT !.board[PyIdx(row, SIZE)][PyIdx(col, SIZE)] =
                                           self.current_player]
                flipped == FlipFrom(placed, row, col, 1)
                recorded == [flipped EXCEPT !.moves =
                                 Append(flipped.moves, coords_to_notation(row, col))]
            IN [self |-> [recorded EXCEPT !.current_player = Other(recorded.current_player)],
                ret |-> Ret(TRUE)]

\* is_game_over without the second switch_player
IsGameOverNoRestore(self) ==
    IF has_valid_moves(self) THEN [self |-> self, ret |-> Ret(FALSE)]
    ELSE LET probed == switch_player(self)
             has_moves == has_valid_moves(probed)
         IN [self |-> probed, ret |-> Ret(~has_moves)]

\* is_game_over that does not look at the other player
IsGameOverCurrentOnly(self) ==
    IF has_valid_moves(self) THEN [self |-> self, ret |-> Ret(FALSE)]
    ELSE [self |-> self, ret |-> Ret(TRUE)]

\* is_game_over: the value is [self, ret]
is_game_over(self) ==
    IF has_valid_moves(self) THEN [self |-> self, ret |-> Ret(FALSE)]
    ELSE LET probed == switch_player(self)
             has_moves == has_valid_moves(probed)
             restored == switch_player(probed)
         IN [self |-> restored, ret |-> Ret(~has_moves)]

\* random.choice(valid_moves) in a game with n recorded moves: the indices
\* of the list that are explored
Choices(valid_moves, n) ==
    IF n < MaxFreePlies THEN 1..Len(valid_moves) ELSE {1}

\* ------------------------------------------------------------------ state
VARIABLES
    board,            \* OthelloBoard.board
    current_player,   \* OthelloBoard.current_player
    moves,            \* OthelloBoard.moves
    pc,               \* "loop": at the while test of generate_game;
                      \* "done": generate_game has returned;
                      \* "client": a client of the board is setting it up;
                      \* "called": the client's call under test has ended;
                      \* "codec": a string is about to be decoded or a cell
                      \*   encoded;
                      \* "encoded": a cell has been encoded;
                      \* "roundtrip": the result of the codec call has been
                      \*   handed to the opposite conversion
    last              \* the last call made: [op, args, ret]

vars == <<board, current_player, moves, pc, last>>

Self == [board |-> board, current_player |-> current_player, moves |-> moves]

SetSelf(self) ==
    /\ board' = self.board
    /\ current_player' = self.current_player
    /\ moves' = self.moves

Call(op, args, ret) == [op |-> op, args |-> args, ret |-> ret]

\* ---------------------------------------------------------- generate_game
Init ==
    /\ board = NewBoard.board
    /\ current_player = NewBoard.current_player
    /\ moves = NewBoard.moves
    /\ pc = "loop"
    /\ last = Call("__init__", <<>>, RetNone)

\* the while test finds the game over: generate_game returns
GameOver ==
    /\ pc = "loop"
    /\ \E over \in {is_game_over(Self)} :
          /\ over.ret = Ret(TRUE)
          /\ SetSelf(over.self)
          /\ last' = Call("is_game_over", <<>>, over.ret)
          /\ pc' = "done"

\* Pass that also records a token ("p") for the pass
PassRecorded ==
    /\ pc = "loop"
    /\ \E over \in {is_game_over(Self)} :
          /\ over.ret = Ret(FALSE)
          /\ get_valid_moves(over.self) = <<>>
          /\ SetSelf([switch_player(over.self) EXCEPT
                         !.moves = Append(over.self.moves, <<112>>)])
          /\ last' = Call("switch_player", <<>>, RetNone)
          /\ pc' = "loop"

\* an iteration whose valid_moves is empty: switch_player and continue
Pass ==
    /\ pc = "loop"
    /\ \E over \in {is_game_over(Self)} :
          /\ over.ret = Ret(FALSE)
          /\ get_valid_moves(over.self) = <<>>
          /\ SetSelf(switch_player(over.self))
          /\ last' = Call("switch_player", <<>>, RetNone)
          /\ pc' = "loop"

\* an iteration that places a piece chosen from valid_moves
Place ==
    /\ pc = "loop"
    /\ \E over \in {is_game_over(Self)} :
          /\ over.ret = Ret(FALSE)
          /\ \E valid_moves \in {get_valid_moves(over.self)} :
                /\ valid_moves # <<>>
                /\ \E i \in Choices(valid_moves, Len(over.self.moves)) :
                      \E made \in {make_move(over.self, valid_moves[i][1], valid_moves[i][2])} :
                         /\ SetSelf(made.self)
                         /\ last' = Call("make_move", valid_moves[i], made.ret)
                         /\ pc' = "loop"

Next == GameOver \/ Pass \/ Place

Spec == Init /\ [][Next]_vars

\* the loop is the only thread of control and each iteration completes
LiveSpec == Init /\ [][Next]_vars /\ WF_vars(Next)

\* ------------------------------------------------- a client of the board
\* A client constructs a board, brings it to a position by legal play, and
\* then makes one call with arbitrary coordinates.
Coords == (0 - MaxOut)..(SIZE - 1 + MaxOut)

InitAPI ==
    /\ board = NewBoard.board
    /\ current_player = NewBoard.current_player
    /\ moves = NewBoard.moves
    /\ pc = "client"
    /\ last = Call("__init__", <<>>, RetNone)

SetupMove ==
    /\ pc = "client"
    /\ Len(moves) < MaxSetupPlies
    /\ \E valid_moves \in {get_valid_moves(Self)} :
          /\ valid_moves # <<>>
          /\ \E i \in Choices(valid_moves, Len(moves)) :
                \E made \in {make_move(Self, valid_moves[i][1], valid_moves[i][2])} :
                   /\ SetSelf(made.self)
                   /\ last' = Call("make_move", valid_moves[i], made.ret)
                   /\ pc' = "client"

CallMakeMove ==
    /\ pc = "client"
    /\ \E row \in Coords, col \in Coords :
          \E made \in {make_move(Self, row, col)} :
             /\ SetSelf(made.self)
             /\ last' = Call("make_move", <<row, col>>, made.ret)
             /\ pc' = "called"

CallIsValidMove ==
    /\ pc = "client"
    /\ \E row \in Coords, col \in Coords :
          /\ last' = Call("is_valid_move", <<row, col>>, is_valid_move(Self, row, col))
          /\ pc' = "called"
          /\ UNCHANGED <<board, current_player, moves>>

NextAPI == SetupMove \/ CallMakeMove \/ CallIsValidMove

SpecAPI == InitAPI /\ [][NextAPI]_vars

\* ------------------------------------------------ a caller of the codec
\* '0'..'9' and '`', 'a'..'i'
Chars == (48..57) \cup (96..105)

Strings == UNION {[1..n -> Chars] : n \in 0..MaxStrLen}

InitCodec ==
    /\ board = NewBoard.board
    /\ current_player = NewBoard.current_player
    /\ moves = NewBoard.moves
    /\ pc = "codec"
    /\ last = Call("__init__", <<>>, RetNone)

CallNotationToCoords ==
    /\ pc = "codec"
    /\ \E notation \in Strings :
          /\ last' = Call("notation_to_coords", <<notation>>, notation_to_coords(notation))
          /\ pc' = "called"
          /\ UNCHANGED <<board, current_player, moves>>

CallCoordsToNotation ==
    /\ pc = "codec"
    /\ \E row \in Rows, col \in Rows :
          /\ last' = Call("coords_to_notation", <<row, col>>,
                          Ret(coords_to_notation(row, col)))
          /\ pc' = "encoded"
          /\ UNCHANGED <<board, current_player, moves>>

\* the token just returned by coords_to_notation is decoded
DecodeEncoded ==
    /\ pc = "encoded"
    /\ last' = Call("notation_to_coords", <<Val(last.ret)>>,
                    notation_to_coords(Val(last.ret)))
    /\ pc' = "roundtrip"
    /\ UNCHANGED <<board, current_player, moves>>

\* the pair just returned by notation_to_coords is encoded
EncodeDecoded ==
    /\ pc = "called"
    /\ last.op = "notation_to_coords"
    /\ last.ret.exc = ""
    /\ last' = Call("coords_to_notation", Val(last.ret),
                    Ret(coords_to_notation(Val(last.ret)[1], Val(last.ret)[2])))
    /\ pc' = "roundtrip"
    /\ UNCHANGED <<board, current_player, moves>>

NextCodec ==
    CallNotationToCoords \/ CallCoordsToNotation \/ DecodeEncoded \/ EncodeDecoded

SpecCodec == InitCodec /\ [][NextCodec]_vars

\* ------------------------------------------------------------ the rules
\* The capture rule stated directly, for a board b and a player P.
Dirs == {d \in {-1, 0, 1} \X {-1, 0, 1} : d # <<0, 0>>}

Cells == Rows \X Rows

\* the k-th cell from (row, col) in direction d
Step(row, col, d, k) == <<row + k * d[1], col + k * d[2]>>

At(b, rc) == b[rc[1]][rc[2]]

\* cells 1..k from (row, col) in direction d are on the board and hold the
\* opponent, and cell k+1 is on the board and holds P
RunOf(b, P, row, col, d, k) ==
    /\ \A j \in 1..k :
          /\ Step(row, col, d, j) \in Cells
          /\ At(b, Step(row, col, d, j)) = Other(P)
    /\ Step(row, col, d, k + 1) \in Cells
    /\ At(b, Step(row, col, d, k + 1)) = P

Captures(b, P, row, col, d) == \E k \in 1..SIZE : RunOf(b, P, row, col, d, k)

Legal(b, P, row, col) ==
    /\ b[row][col] = EMPTY
    /\ \E d \in Dirs : Captures(b, P, row, col, d)

HasLegal(b, P) == \E rc \in Cells : Legal(b, P, rc[1], rc[2])

\* the opponent cells of all capturing runs of a placement at (row, col)
Captured(b, P, row, col) ==
    UNION {{Step(row, col, dk[1], j) : j \in 1..dk[2]} :
              dk \in {x \in Dirs \X (1..SIZE) : RunOf(b, P, row, col, x[1], x[2])}}

Occupied(b) == Cardinality({rc \in Cells : At(b, rc) # EMPTY})

\* the token of a cell: letter 'a' + col, digit '1' + row
Token(row, col) == <<97 + col, 49 + row>>

\* --------------------------------------------------------------- claims
LastRow == last.args[1]
LastCol == last.args[2]

\* C1: on every board and for every current player, is_valid_move(row, col)
\* of an in-range cell returns True iff the cell is EMPTY and at least one of
\* the 8 directions captures, and it raises nothing.
C1_IsValidMoveIffCapture ==
    \A rc \in Cells :
        is_valid_move(Self, rc[1], rc[2]) = Ret(Legal(board, current_player, rc[1], rc[2]))

\* a position reached by play with a legal cell, and with an empty cell that
\* is not legal although a run of opponent cells starts next to it and
\* reaches the edge of the board
C1_Witness ==
    /\ last.op = "make_move"
    /\ \E rc \in Cells : is_valid_move(Self, rc[1], rc[2]) = Ret(TRUE)
    /\ \E rc \in Cells, d \in Dirs, k \in 1..SIZE :
          /\ At(board, rc) = EMPTY
          /\ \A j \in 1..k :
                /\ Step(rc[1], rc[2], d, j) \in Cells
                /\ At(board, Step(rc[1], rc[2], d, j)) = Other(current_player)
          /\ Step(rc[1], rc[2], d, k + 1) \notin Cells
          /\ is_valid_move(Self, rc[1], rc[2]) = Ret(FALSE)

\* C2: make_move of a cell that is legal for the current player P returns
\* True, sets exactly that cell and the opponent cells of all capturing runs
\* to P (at least one of them), leaves every other cell as it was, makes the
\* opponent the current player and appends the cell's token to moves.
C2_MakeMoveEffect ==
    [][(last'.op = "make_move"
          /\ Legal(board, current_player, last'.args[1], last'.args[2]))
       => LET row == last'.args[1]
              col == last'.args[2]
              flips == Captured(board, current_player, row, col)
          IN /\ last'.ret = Ret(TRUE)
             /\ flips # {}
             /\ \A rc \in Cells :
                   At(board', rc) = IF rc = <<row, col>> \/ rc \in flips
                                    THEN current_player
                                    ELSE At(board, rc)
             /\ current_player' = Other(current_player)
             /\ moves' = Append(moves, Token(row, col))]_vars

\* a placement has been made and recorded
C2_Witness ==
    /\ last.op = "make_move"
    /\ last.ret = Ret(TRUE)
    /\ Len(moves) > MaxFreePlies
    /\ moves[Len(moves)] = Token(LastRow, LastCol)
    /\ At(board, <<LastRow, LastCol>>) = Other(current_player)

\* C3: in generate_game the number of occupied cells grows by exactly 1 at
\* each make_move and is left unchanged by each pass and each is_game_over
\* check, so it never decreases.
C3_OccupiedCount ==
    [][/\ last'.op = "make_move" => Occupied(board') = Occupied(board) + 1
       /\ last'.op = "switch_player" => Occupied(board') = Occupied(board)
       /\ last'.op = "is_game_over" => Occupied(board') = Occupied(board)
       /\ Occupied(is_game_over(Self).self.board) = Occupied(board)
       /\ Occupied(board') >= Occupied(board)]_vars

\* the last placement of a game that fills the board
C3_Witness ==
    /\ last.op = "make_move"
    /\ Occupied(board) = SIZE * SIZE
    /\ Len(moves) = SIZE * SIZE - 4

\* C4: is_game_over returns True iff neither player has a legal move on the
\* board, and leaves current_player, the board and moves as they were.
C4_IsGameOverPure ==
    LET over == is_game_over(Self)
    IN /\ over.ret = Ret(~HasLegal(board, current_player)
                         /\ ~HasLegal(board, Other(current_player)))
       /\ over.self = Self

\* a pass has just been made: the is_game_over of that iteration probed the
\* other player and found a move
C4_Witness ==
    /\ last.op = "switch_player"
    /\ HasLegal(board, current_player)
    /\ ~HasLegal(board, Other(current_player))

\* C5: generate_game terminates, with at most 60 placements, with no two
\* passes in a row, with nothing done after is_game_over returned True, and
\* in a state where neither player has a legal move.
C5_Terminates ==
    /\ <>(pc = "done")
    /\ [](Len(moves) <= SIZE * SIZE - 4)
    /\ [](pc = "done" => /\ ~HasLegal(board, current_player)
                         /\ ~HasLegal(board, Other(current_player)))
    /\ [][last.op = "switch_player" => last'.op # "switch_player"]_vars
    /\ [][pc = "done" => UNCHANGED <<board, current_player, moves>>]_vars

\* a game that has ended with empty cells left
C5_Witness ==
    /\ pc = "done"
    /\ Occupied(board) < SIZE * SIZE

\* C6: a pass is made only when the current player has no legal move and the
\* opponent has one; it changes current_player only; and the step after a
\* pass is a placement by the player the pass made current.
C6_PassSemantics ==
    [][/\ last'.op = "switch_player"
          => /\ ~HasLegal(board, current_player)
             /\ HasLegal(board, Other(current_player))
             /\ board' = board
             /\ moves' = moves
             /\ current_player' = Other(current_player)
       /\ last.op = "switch_player"
          => /\ last'.op = "make_move"
             /\ last'.ret = Ret(TRUE)
             /\ Len(moves') = Len(moves) + 1
             /\ At(board', <<last'.args[1], last'.args[2]>>) = current_player]_vars

\* a pass has been made in a game in progress
C6_Witness ==
    /\ last.op = "switch_player"
    /\ pc = "loop"
    /\ moves # <<>>

\* Replay of a move list on a fresh board: for each token, switch_player if
\* the current player has no valid move, then make_move at the decoded cell.
RECURSIVE ReplayFrom(_, _, _)
ReplayFrom(self, tokens, k) ==
    IF k > Len(tokens) THEN [ok |-> TRUE, self |-> self]
    ELSE LET turn == IF has_valid_moves(self) THEN self ELSE switch_player(self)
             rc == notation_to_coords(tokens[k])
         IN IF rc.exc # "" THEN [ok |-> FALSE, self |-> turn]
            ELSE LET made == make_move(turn, Val(rc)[1], Val(rc)[2])
                 IN IF made.ret # Ret(TRUE) THEN [ok |-> FALSE, self |-> made.self]
                    ELSE ReplayFrom(made.self, tokens, k + 1)

Replay(tokens) == ReplayFrom(NewBoard, tokens, 1)

\* C7: replaying the move list returned by generate_game succeeds at every
\* step and ends with the same board, occupied count and moves.
C7_ReplayConsistency ==
    pc = "done" =>
        LET replayed == Replay(moves)
        IN /\ replayed.ok
           /\ replayed.self.board = board
           /\ Occupied(replayed.self.board) = Occupied(board)
           /\ replayed.self.moves = moves

\* a returned game, which the replay reproduces
C7_Witness ==
    /\ pc = "done"
    /\ last.op = "is_game_over"
    /\ Len(moves) > MaxFreePlies
    /\ Replay(moves).ok

\* C8: make_move of an in-range cell that is not legal for the current
\* player returns False and changes nothing.
C8_IllegalMoveRejected ==
    [][(/\ last'.op = "make_move"
        /\ OnBoard(last'.args[1], last'.args[2])
        /\ ~Legal(board, current_player, last'.args[1], last'.args[2]))
       => /\ last'.ret = Ret(FALSE)
          /\ UNCHANGED <<board, current_player, moves>>]_vars

\* make_move has refused an empty in-range cell after some play
C8_Witness ==
    /\ pc = "called"
    /\ last.op = "make_move"
    /\ last.ret = Ret(FALSE)
    /\ OnBoard(LastRow, LastCol)
    /\ At(board, <<LastRow, LastCol>>) = EMPTY
    /\ moves # <<>>

\* C9: for coordinates outside [0, 8), is_valid_move never returns True, and
\* make_move returns False or raises and changes nothing.
C9_OutOfRangeRejected ==
    [][(/\ last'.op \in {"is_valid_move", "make_move"}
        /\ ~OnBoard(last'.args[1], last'.args[2]))
       => /\ last'.ret # Ret(TRUE)
          /\ UNCHANGED <<board, current_player, moves>>]_vars

\* [a-h][1-8]
WellFormed(notation) ==
    /\ Len(notation) = 2
    /\ notation[1] \in 97..104
    /\ notation[2] \in 49..56

\* C10: notation_to_coords of a string that is not a letter a-h followed by
\* a digit 1-8 ends in an error.
C10_MalformedTokenRaises ==
    (last.op = "notation_to_coords" /\ ~WellFormed(last.args[1])) => last.ret.exc # ""

\* C11: for every cell (r, c) coords_to_notation returns the token with
\* letter 'a' + c and digit r + 1, and notation_to_coords of that token
\* returns (r, c); for every token t in [a-h][1-8], coords_to_notation of
\* notation_to_coords(t) returns t.
C11_NotationRoundTrip ==
    [][/\ (pc = "codec" /\ last'.op = "coords_to_notation")
          => last'.ret = Ret(Token(last'.args[1], last'.args[2]))
       /\ (pc = "encoded" /\ last'.op = "notation_to_coords")
          => last'.ret = Ret(last.args)
       /\ (pc = "called" /\ last'.op = "coords_to_notation" /\ WellFormed(last.args[1]))
          => last'.ret = Ret(last.args[1])]_vars

\* the token of the last cell, (7, 7), has been decoded again
C11_Witness ==
    /\ pc = "roundtrip"
    /\ last.op = "notation_to_coords"
    /\ last.args = << <<104, 56>> >>
    /\ last.ret = Ret(<<SIZE - 1, SIZE - 1>>)

\* "d3", "c4", "f5", "e6"
OpeningTokens == << <<100, 51>>, <<99, 52>>, <<102, 53>>, <<101, 54>> >>

\* C12: on a freshly constructed board only (3,3) = WHITE, (3,4) = BLACK,
\* (4,3) = BLACK and (4,4) = WHITE are occupied, BLACK is to move, moves is
\* empty, and get_valid_moves returns (2,3), (3,2), (4,5), (5,4) in that
\* order, with tokens d3, c4, f5, e6; every returned game is non-empty and
\* the first token of every game is one of these four.
C12_OpeningMoves ==
    /\ last.op = "__init__"
       => /\ \A rc \in Cells :
                At(board, rc) = IF rc \in {<<3, 3>>, <<4, 4>>} THEN WHITE
                                ELSE IF rc \in {<<3, 4>>, <<4, 3>>} THEN BLACK
                                ELSE EMPTY
          /\ current_player = BLACK
          /\ moves = <<>>
          /\ get_valid_moves(Self) = << <<2, 3>>, <<3, 2>>, <<4, 5>>, <<5, 4>> >>
          /\ [i \in 1..Len(get_valid_moves(Self)) |->
                 coords_to_notation(get_valid_moves(Self)[i][1],
                                    get_valid_moves(Self)[i][2])] = OpeningTokens
    /\ pc = "done" => moves # <<>>
    /\ moves # <<>> => \E i \in 1..Len(OpeningTokens) : moves[1] = OpeningTokens[i]

\* a game whose first placement is the last of the four opening moves
C12_Witness ==
    /\ last.op = "make_move"
    /\ moves = << <<101, 54>> >>
    /\ At(board, <<5, 4>>) = BLACK

\* the cell a token names: column from the letter, row from the digit
TokenCell(t) == <<t[2] - 49, t[1] - 97>>

\* C13: in every state of generate_game every recorded token matches
\* [a-h][1-8], the tokens are pairwise distinct, none names a centre cell
\* (d4, e4, d5, e5), every named cell is occupied, and the number of occupied
\* cells is 4 + len(moves); tokens are in placement order: a step leaves
\* moves alone or appends the token of the cell it placed.
C13_MovesConsistent ==
    /\ [](/\ \A i \in 1..Len(moves) :
                /\ WellFormed(moves[i])
                /\ TokenCell(moves[i]) \notin {<<3, 3>>, <<3, 4>>, <<4, 3>>, <<4, 4>>}
                /\ At(board, TokenCell(moves[i])) # EMPTY
                /\ \A j \in 1..Len(moves) : moves[i] = moves[j] => i = j
          /\ Occupied(board) = 4 + Len(moves))
    /\ [][\/ moves' = moves
          \/ /\ last'.op = "make_move"
             /\ moves' = Append(moves, Token(last'.args[1], last'.args[2]))
             /\ At(board, <<last'.args[1], last'.args[2]>>) = EMPTY
             /\ At(board', <<last'.args[1], last'.args[2]>>) # EMPTY]_vars

\* a game in progress with tokens on the first and the last row and column
C13_Witness ==
    /\ pc = "loop"
    /\ Len(moves) > MaxFreePlies
    /\ \E i \in 1..Len(moves) : moves[i][1] = 97
    /\ \E i \in 1..Len(moves) : moves[i][1] = 104
    /\ \E i \in 1..Len(moves) : moves[i][2] = 49
    /\ \E i \in 1..Len(moves) : moves[i][2] = 56

====
